---- MODULE Spec2Model ----
(***************************************************************************)
(* A model of kixpr: the tokenizer (src/src/tokenizer.rs) and the          *)
(* recursive-descent parser with its lowering to S-expressions             *)
(* (src/src/parse.rs).                                                     *)
(*                                                                         *)
(* A source text is a sequence of one-character strings.  Option<T> is a   *)
(* sequence of length at most one (<<>> is None, <<x>> is Some(x)).        *)
(* Result<T, E> is a record [tag |-> "Ok" | "Err", val |-> ...]; the       *)
(* operators that take &mut self return, besides, the tokenizer they leave *)
(* behind in the field tk.                                                 *)
(***************************************************************************)
EXTENDS Integers, Sequences, FiniteSets, TLC

VARIABLES
    input_text,   \* the &str handed to Tokenizer::new / Parser::new
    tokenizer,    \* the Tokenizer (the only field of Parser)
    called,       \* the tokenizer method called last ("new" after construction)
    returned,     \* what that call returned
    pc,           \* position of the parser test: new, parsed, lowered, printed
    list,         \* the ParseResult<List> of parse_list
    sexp,         \* Option<Sexp>: list.to_sexp()
    text          \* Option<String>: sexp.stringify()

vars == <<input_text, tokenizer, called, returned, pc, list, sexp, text>>

None == <<>>
Some(x) == <<x>>
Ok(v) == [tag |-> "Ok", val |-> v]
Err(e) == [tag |-> "Err", val |-> e]

(***************************************************************************)
(* Bounds of the model.                                                    *)
(***************************************************************************)
\* longest source text enumerated for the tokenizer
MaxLexLen == 3
\* longest source text enumerated for the parser
MaxParseLen == 4
\* longest enumerated source whose tokenizer states are all examined for progress
MaxProgressLen == 3

(***************************************************************************)
(* Characters.  char::is_whitespace and char::is_alphanumeric are the      *)
(* host's classification, restricted here to the code points the model     *)
(* feeds in.                                                               *)
(***************************************************************************)
Digit == {"0", "1", "2", "3", "4", "5", "6", "7", "8", "9"}
Letter == {"a", "b", "c", "d", "e", "f", "g", "h", "i", "j", "k", "l", "m",
           "n", "o", "p", "q", "r", "s", "t", "u", "v", "w", "x", "y", "z"}
is_whitespace(character) == character \in {" ", "\n", "\t", "\r"}
is_alphanumeric(character) == character \in Letter \cup Digit
Punctuation == {"(", ")", ".", ":", ",", "{", "}", "[", "]"}

RECURSIVE StringOf(_)
\* a String (kept as the sequence of its characters) written as a TLA+ string
StringOf(chars) ==
    IF chars = <<>> THEN "" ELSE Head(chars) \o StringOf(Tail(chars))

(***************************************************************************)
(* Position and Span.                                                      *)
(***************************************************************************)
Min(a, b) == IF a <= b THEN a ELSE b
Max(a, b) == IF a >= b THEN a ELSE b

Position(l, c, i) == [line_number |-> l, column_number |-> c, character_index |-> i]

Position_min(self, other) ==
    Position(Min(self.line_number, other.line_number),
             Min(self.column_number, other.column_number),
             Min(self.character_index, other.character_index))

Position_max(self, other) ==
    Position(Max(self.line_number, other.line_number),
             Max(self.column_number, other.column_number),
             Max(self.character_index, other.character_index))

Span(s, e) == [start |-> s, end |-> e]

Span_join(self, other) ==
    Span(Position_min(self.start, other.start), Position_max(self.end, other.end))

(***************************************************************************)
(* Tokens.  A TokenKind is [tag, payload]: the text of an Operator or an   *)
(* Identifier and the decoded text of a StringLiteral (sequences of        *)
(* characters), the f64 of a NumberLiteral, <<>> for the punctuation       *)
(* kinds.                                                                  *)
(***************************************************************************)
TokenKind(tag, payload) == [tag |-> tag, payload |-> payload]
Punct(tag) == TokenKind(tag, <<>>)
Token(kind, span) == [kind |-> kind, span |-> span]
\* #[derive(PartialEq)] on TokenKind: the variant, then its payload
TokenKind_eq(a, b) == a.tag = b.tag /\ a.payload = b.payload

TokenizeError(tag, payload) == [tag |-> tag, payload |-> payload]

(***************************************************************************)
(* Tokenizer.                                                              *)
(***************************************************************************)
Tokenizer_new(text_) ==
    [input_characters |-> text_,
     current_position |-> Position(1, 1, 0),
     cached_next_token |-> None]

advance_position(tk, character) ==
    [tk EXCEPT !.current_position =
        IF character = "\n"
        THEN Position(@.line_number + 1, 1, @.character_index + 1)
        ELSE Position(@.line_number, @.column_number + 1, @.character_index + 1)]

\* self.input_characters.next() without the self.advance_position(character)
next_char_keeping_position(tk) == [tk EXCEPT !.input_characters = Tail(@)]

\* self.input_characters.next() followed by self.advance_position(character)
next_char(tk) ==
    advance_position([tk EXCEPT !.input_characters = Tail(@)],
                     Head(tk.input_characters))

\* the characters of a text, as a set
CharsOf(chars) == {chars[i] : i \in 1..Len(chars)}

RECURSIVE consume_while_loop(_, _, _)
\* the while loop of consume_while; a predicate is a function of the characters left
consume_while_loop(tk, predicate, result) ==
    IF tk.input_characters # <<>> /\ predicate[Head(tk.input_characters)]
    THEN consume_while_loop(next_char(tk), predicate,
                            Append(result, Head(tk.input_characters)))
    ELSE [result |-> result, tk |-> tk]

consume_while(tk, predicate) == consume_while_loop(tk, predicate, <<>>)

\* skip_whitespace leaving the whitespace in place
skip_whitespace_nothing(tk) == tk

RECURSIVE skip_whitespace(_)
skip_whitespace(tk) ==
    IF tk.input_characters # <<>> /\ is_whitespace(Head(tk.input_characters))
    THEN skip_whitespace(next_char(tk))
    ELSE tk

is_identifier_char(character) == is_alphanumeric(character) \/ character = "_"
\* the predicate of parse_operator without its punctuation test
is_operator_char_any_visible(character) == ~is_whitespace(character)

is_operator_char(character) ==
    ~is_whitespace(character) /\ character \notin Punctuation

parse_alphanumeric_identifier(tk) ==
    LET identifier(r) ==
            [tag |-> "Ok", val |-> TokenKind("Identifier", r.result), tk |-> r.tk]
    IN  identifier(consume_while(tk, [character \in CharsOf(tk.input_characters) |->
                                         is_identifier_char(character)]))

parse_operator(tk) ==
    LET operator(r) ==
            [tag |-> "Ok", val |-> TokenKind("Operator", r.result), tk |-> r.tk]
    IN  operator(consume_while(tk, [character \in CharsOf(tk.input_characters) |->
                                       is_operator_char(character)]))

RECURSIVE string_literal_loop(_, _, _)
\* the while loop of parse_string_literal
string_literal_loop(tk, string_content, is_escaped) ==
    LET step(character, t) ==
            IF is_escaped
            THEN CASE character = "n" -> string_literal_loop(t, Append(string_content, "\n"), FALSE)
                   [] character = "t" -> string_literal_loop(t, Append(string_content, "\t"), FALSE)
                   [] character = "\\" -> string_literal_loop(t, Append(string_content, "\\"), FALSE)
                   [] character = "\"" -> string_literal_loop(t, Append(string_content, "\""), FALSE)
                   [] OTHER -> [tag |-> "Err",
                                val |-> TokenizeError("InvalidEscapeSequence", <<character>>),
                                tk |-> t]
            ELSE CASE character = "\\" -> string_literal_loop(t, string_content, TRUE)
                   [] character = "\"" ->
                        [tag |-> "Ok", val |-> TokenKind("StringLiteral", string_content), tk |-> t]
                   [] OTHER -> string_literal_loop(t, Append(string_content, character), FALSE)
    IN  IF tk.input_characters = <<>>
        THEN [tag |-> "Err", val |-> TokenizeError("UnterminatedStringLiteral", <<>>), tk |-> tk]
        ELSE step(Head(tk.input_characters), next_char(tk))

parse_string_literal(tk) == string_literal_loop(next_char(tk), <<>>, FALSE)

(***************************************************************************)
(* str::parse::<f64> on a run of decimal digits with at most one ".".  The *)
(* f64 is kept as the decimal number it stands for, mantissa / 10^scale    *)
(* with the smallest scale: exact for the literals of up to 9 significant  *)
(* digits that the model feeds in.                                         *)
(***************************************************************************)
DigitChars == <<"0", "1", "2", "3", "4", "5", "6", "7", "8", "9">>
digit_value(character) == CHOOSE d \in 0..9 : DigitChars[d + 1] = character

RECURSIVE decimal_value(_)
\* the number a sequence of digits denotes
decimal_value(digits) ==
    IF digits = <<>> THEN 0
    ELSE 10 * decimal_value(SubSeq(digits, 1, Len(digits) - 1))
         + digit_value(digits[Len(digits)])

RECURSIVE strip_trailing_zeros(_)
strip_trailing_zeros(digits) ==
    IF digits # <<>> /\ digits[Len(digits)] = "0"
    THEN strip_trailing_zeros(SubSeq(digits, 1, Len(digits) - 1)) ELSE digits

F64(mantissa, scale) == [mantissa |-> mantissa, scale |-> scale]

parse_f64(number_chars) ==
    LET value(int_part, frac_part) ==
            F64(decimal_value(int_part \o frac_part), Len(frac_part))
        split(dot) ==
            value(SubSeq(number_chars, 1, dot - 1),
                  strip_trailing_zeros(SubSeq(number_chars, dot + 1, Len(number_chars))))
        parse(dots) ==
            IF Len(number_chars) = Cardinality(dots)
            THEN Err(<<>>)
            ELSE Ok(split(IF dots = {} THEN Len(number_chars) + 1 ELSE CHOOSE i \in dots : TRUE))
    IN  parse({i \in 1..Len(number_chars) : number_chars[i] = "."})

RECURSIVE number_literal_loop(_, _, _)
\* the while loop of parse_number_literal and the conversion after it
number_literal_loop(tk, number_chars, has_decimal_point) ==
    LET converted(v) ==
            IF v.tag = "Ok"
            THEN [tag |-> "Ok", val |-> TokenKind("NumberLiteral", v.val), tk |-> tk]
            ELSE [tag |-> "Err", val |-> TokenizeError("FailedToParseNumber", v.val),
                  tk |-> tk]
        step(character) ==
            CASE character \in Digit ->
                   number_literal_loop(next_char(tk), Append(number_chars, character),
                                       has_decimal_point)
              [] character = "." /\ ~has_decimal_point ->
                   number_literal_loop(next_char(tk), Append(number_chars, character), TRUE)
              [] character = "." /\ has_decimal_point ->
                   [tag |-> "Err",
                    val |-> TokenizeError("InvalidNumberFormatMultipleDecimalPoints", <<>>),
                    tk |-> tk]
              [] OTHER -> converted(parse_f64(number_chars))
    IN  IF tk.input_characters = <<>>
        THEN converted(parse_f64(number_chars))
        ELSE step(Head(tk.input_characters))

parse_number_literal(tk) == number_literal_loop(tk, <<>>, FALSE)

PunctuationKind(character) ==
    CASE character = "(" -> "LeftParenthesis"
      [] character = ")" -> "RightParenthesis"
      [] character = "{" -> "LeftBrace"
      [] character = "}" -> "RightBrace"
      [] character = "[" -> "LeftBracket"
      [] character = "]" -> "RightBracket"
      [] character = "." -> "Dot"
      [] character = ":" -> "Colon"
      [] character = "," -> "Comma"

\* Result<Option<Token>, TokenizeError>, and the tokenizer left behind
read_next_token(tk0) ==
    LET spanned(start_position, token) ==
            IF token.tag = "Err"
            THEN token
            ELSE [tag |-> "Ok",
                  val |-> Some(Token(token.val,
                                     Span(start_position, token.tk.current_position))),
                  tk |-> token.tk]
        lexed(tk, character) ==
            CASE character \in Punctuation ->
                   [tag |-> "Ok", val |-> Punct(PunctuationKind(character)),
                    tk |-> next_char(tk)]
              [] character = "\"" -> parse_string_literal(tk)
              [] character \in Digit -> parse_number_literal(tk)
              [] character \notin Punctuation \cup {"\""} \cup Digit
                 /\ is_identifier_char(character) -> parse_alphanumeric_identifier(tk)
              [] character \notin Punctuation \cup {"\""} \cup Digit
                 /\ ~is_identifier_char(character)
                 /\ ~is_whitespace(character) -> parse_operator(tk)
              [] OTHER -> [tag |-> "Err",
                           val |-> TokenizeError("UnexpectedCharacter", <<character>>),
                           tk |-> tk]
        skipped(tk) ==
            IF tk.input_characters = <<>>
            THEN [tag |-> "Ok", val |-> None, tk |-> tk]
            ELSE spanned(tk.current_position, lexed(tk, Head(tk.input_characters)))
    IN  skipped(skip_whitespace(tk0))

next_token(tk) ==
    IF tk.cached_next_token # None
    THEN [tag |-> "Ok", val |-> tk.cached_next_token,
          tk |-> [tk EXCEPT !.cached_next_token = None]]
    ELSE read_next_token(tk)

peek_token(tk) ==
    LET cached(r) ==
            IF r.tag = "Err" THEN r
            ELSE IF r.val # None
                 THEN [tag |-> "Ok", val |-> r.val,
                       tk |-> [r.tk EXCEPT !.cached_next_token = r.val]]
                 ELSE [tag |-> "Ok", val |-> None, tk |-> r.tk]
    IN  IF tk.cached_next_token # None
        THEN [tag |-> "Ok", val |-> tk.cached_next_token, tk |-> tk]
        ELSE cached(read_next_token(tk))

\* the Result a call returned, without the tokenizer
Returned(r) == [tag |-> r.tag, val |-> r.val]

(***************************************************************************)
(* The tokenizer as a state machine: a client constructs a Tokenizer on a  *)
(* source text and calls next_token and peek_token in any order.           *)
(***************************************************************************)
\* all sequences over alphabet of length at most n
SeqsUpTo(alphabet, n) == UNION {[1..k -> alphabet] : k \in 0..n}

LexAlphabet == {"n", "1", ".", "\"", "\\", " ", "\n", "+", "("}

\* tests::test_tokenizer: identifier123 "string literal" 123.456 [] {} ()
TestTokenizerInput ==
    <<"i", "d", "e", "n", "t", "i", "f", "i", "e", "r", "1", "2", "3", " ",
      "\"", "s", "t", "r", "i", "n", "g", " ", "l", "i", "t", "e", "r", "a", "l", "\"", " ",
      "1", "2", "3", ".", "4", "5", "6", " ", "[", "]", " ", "{", "}", " ", "(", ")">>

LexSources == SeqsUpTo(LexAlphabet, MaxLexLen) \cup {TestTokenizerInput}

ParserIdle ==
    /\ pc = "new"
    /\ list = None
    /\ sexp = None
    /\ text = None

Init ==
    /\ input_text \in LexSources
    /\ tokenizer = Tokenizer_new(input_text)
    /\ called = "new"
    /\ returned = Ok(None)
    /\ ParserIdle

NextToken ==
    LET r == next_token(tokenizer) IN
    /\ tokenizer' = r.tk
    /\ called' = "next_token"
    /\ returned' = Returned(r)
    /\ UNCHANGED <<input_text, pc, list, sexp, text>>

PeekToken ==
    LET r == peek_token(tokenizer) IN
    /\ tokenizer' = r.tk
    /\ called' = "peek_token"
    /\ returned' = Returned(r)
    /\ UNCHANGED <<input_text, pc, list, sexp, text>>

Next == NextToken \/ PeekToken

Spec == Init /\ [][Next]_vars

(***************************************************************************)
(* C1: peek_token returns what next_token would return from the same       *)
(* state and consumes nothing: a peek_token or next_token call that        *)
(* directly follows a peek_token call returns the result (token,           *)
(* end-of-input or lex error) that peek returned.                          *)
(***************************************************************************)
C1_PeekIsNextUnconsumed ==
    [][/\ called' = "peek_token" => returned' = Returned(next_token(tokenizer))
       /\ called = "peek_token" => returned' = returned]_vars

(***************************************************************************)
(* Parser: errors and the concrete syntax tree.                            *)
(***************************************************************************)
ParseError_TokenizeError(error) ==
    [tag |-> "TokenizeError", error |-> Some(error), token |-> None, expected |-> None]
UnexpectedToken(token, expected) ==
    [tag |-> "UnexpectedToken", error |-> None, token |-> Some(token), expected |-> expected]
UnexpectedEof(expected) ==
    [tag |-> "UnexpectedEof", error |-> None, token |-> None, expected |-> expected]

\* Ok(v) and Err(e) of a parsing method, with the tokenizer it leaves behind
OkT(v, tk) == [tag |-> "Ok", val |-> v, tk |-> tk]
ErrT(e, tk) == [tag |-> "Err", val |-> e, tk |-> tk]

List(exprs) == [node |-> "List", exprs |-> exprs]
RightAssocExpr_RightAssocExpr(left, colon, right) ==
    [node |-> "RightAssocExpr::RightAssocExpr", left |-> left, colon |-> colon, right |-> right]
RightAssocExpr_LeftAssocExpr(expr) ==
    [node |-> "RightAssocExpr::LeftAssocExpr", expr |-> expr]
LeftAssocExpr_LeftAssocExpr(left, dot, right) ==
    [node |-> "LeftAssocExpr::LeftAssocExpr", left |-> left, dot |-> dot, right |-> right]
LeftAssocExpr_OperatorFunctionCallLike(expr) ==
    [node |-> "LeftAssocExpr::OperatorFunctionCallLike", expr |-> expr]
OperatorFunctionCallLike(head, tail) ==
    [node |-> "OperatorFunctionCallLike", head |-> head, tail |-> tail]
Operator(representation, span) == [representation |-> representation, span |-> span]
Component_Operator(operator) ==
    [node |-> "OperatorFunctionCallLikeComponent::Operator", operator |-> operator]
Component_AlphanumericFunctionCallLike(call) ==
    [node |-> "OperatorFunctionCallLikeComponent::AlphanumericFunctionCallLike", call |-> call]
AlphanumericFunctionCallLike_FunctionCallLike(call) ==
    [node |-> "AlphanumericFunctionCallLike::FunctionCallLike", call |-> call]
AlphanumericFunctionCallLike_AtomicExpr(expr) ==
    [node |-> "AlphanumericFunctionCallLike::AtomicExpr", expr |-> expr]
FunctionCallLike(head, tail) == [node |-> "FunctionCallLike", head |-> head, tail |-> tail]
\* LiteralString, LiteralName, LiteralNumber
Literal(value, span) == [value |-> value, span |-> span]
AtomicExpr_String(string) == [node |-> "AtomicExpr::String", lit |-> string]
AtomicExpr_Number(number) == [node |-> "AtomicExpr::Number", lit |-> number]
AtomicExpr_Name(name) == [node |-> "AtomicExpr::Name", lit |-> name]
ParenthesizedExpr(open, list_, close) == [open |-> open, list |-> list_, close |-> close]
AtomicExpr_Parenthesized(expr) == [node |-> "AtomicExpr::Parenthesized", expr |-> expr]

(***************************************************************************)
(* Parser: the token interface.                                            *)
(***************************************************************************)
Parser_new(text_) == Tokenizer_new(text_)

Parser_next_token(tk) ==
    LET map_err(r) ==
            IF r.tag = "Err" THEN ErrT(ParseError_TokenizeError(r.val), r.tk) ELSE r
    IN  map_err(next_token(tk))

Parser_peek_token(tk) ==
    LET map_err(r) ==
            IF r.tag = "Err" THEN ErrT(ParseError_TokenizeError(r.val), r.tk) ELSE r
    IN  map_err(peek_token(tk))

\* eat_token reporting no expectation
eat_token_expecting_nothing(tk, expected_token_kind) ==
    LET matched(r) ==
            IF r.tag = "Err" THEN r
            ELSE IF r.val # None
                 THEN IF ~TokenKind_eq(r.val[1].kind, expected_token_kind)
                      THEN ErrT(UnexpectedToken(r.val[1], None), r.tk)
                      ELSE OkT(r.val[1], r.tk)
                 ELSE ErrT(UnexpectedEof(None), r.tk)
    IN  matched(Parser_next_token(tk))

eat_token(tk, expected_token_kind) ==
    LET matched(r) ==
            IF r.tag = "Err" THEN r
            ELSE IF r.val # None
                 THEN IF ~TokenKind_eq(r.val[1].kind, expected_token_kind)
                      THEN ErrT(UnexpectedToken(r.val[1], Some(expected_token_kind)), r.tk)
                      ELSE OkT(r.val[1], r.tk)
                 ELSE ErrT(UnexpectedEof(Some(expected_token_kind)), r.tk)
    IN  matched(Parser_next_token(tk))

\* the rest of try_eat_token after its peek_token
\* try_eat_token without its self.next_token()?: the token stays in the look-ahead
try_eat_token_after_peek_keeping_token(token_kind, p) ==
    IF p.tag = "Err" THEN p
    ELSE IF p.val # None /\ TokenKind_eq(p.val[1].kind, token_kind)
         THEN OkT(p.val, p.tk)
         ELSE OkT(None, p.tk)

try_eat_token_after_peek(token_kind, p) ==
    LET taken(n) == IF n.tag = "Err" THEN n ELSE OkT(p.val, n.tk)
    IN  IF p.tag = "Err" THEN p
        ELSE IF p.val # None /\ TokenKind_eq(p.val[1].kind, token_kind)
             THEN taken(Parser_next_token(p.tk))
             ELSE OkT(None, p.tk)

try_eat_token(tk, token_kind) ==
    try_eat_token_after_peek(token_kind, Parser_peek_token(tk))

(***************************************************************************)
RECURSIVE parse_list(_)
RECURSIVE parse_list_loop(_, _)
RECURSIVE parse_list_loop_after_expr(_, _)
RECURSIVE parse_list_loop_after_comma(_, _)
RECURSIVE parse_right_assoc_expr(_)
RECURSIVE parse_right_assoc_expr_after_left(_)
RECURSIVE parse_right_assoc_expr_after_colon(_, _)
RECURSIVE parse_left_assoc_expr(_)
RECURSIVE parse_left_assoc_expr_after_expr(_)
RECURSIVE try_parse_left_assoc_expr(_, _)
RECURSIVE try_parse_left_assoc_expr_after_dot(_, _)
RECURSIVE try_parse_left_assoc_expr_after_right(_, _, _)
RECURSIVE parse_operator_function_call_like(_)
RECURSIVE parse_operator_function_call_like_after_head(_)
RECURSIVE parse_operator_function_call_like_loop(_, _)
RECURSIVE parse_operator_function_call_like_loop_after_peek(_, _)
RECURSIVE parse_operator_function_call_like_loop_after_component(_, _)
RECURSIVE parse_operator_function_call_like_component(_)
RECURSIVE parse_operator_function_call_like_component_after_peek(_)
RECURSIVE parse_alphanumeric_function_call_like(_)
RECURSIVE parse_alphanumeric_function_call_like_after_head(_)
RECURSIVE parse_alphanumeric_function_call_like_loop(_, _)
RECURSIVE parse_alphanumeric_function_call_like_loop_after_peek(_, _)
RECURSIVE parse_alphanumeric_function_call_like_loop_after_expr(_, _)
RECURSIVE parse_atomic_expr(_)
RECURSIVE parse_atomic_expr_after_token(_)
RECURSIVE parse_atomic_expr_match(_, _)
RECURSIVE parse_list_ending_with(_, _, _)
RECURSIVE parse_list_ending_with_after_list(_, _, _)

\* loop { exprs.push(self.parse_right_assoc_expr()?); ... }
parse_list_loop(tk, exprs) ==
    parse_list_loop_after_expr(exprs, parse_right_assoc_expr(tk))

parse_list_loop_after_expr(exprs, right_assoc_expr) ==
    IF right_assoc_expr.tag = "Err" THEN right_assoc_expr
    ELSE parse_list_loop_after_comma(Append(exprs, right_assoc_expr.val),
                                     try_eat_token(right_assoc_expr.tk, Punct("Comma")))

\* if self.try_eat_token(TokenKind::Comma)?.is_none() { break; }
parse_list_loop_after_comma(exprs, comma) ==
    IF comma.tag = "Err" THEN comma
    ELSE IF comma.val = None THEN OkT(List(exprs), comma.tk)
    ELSE parse_list_loop(comma.tk, exprs)

\* parse_list returning a list of no expressions for a source of no characters
parse_list_allowing_empty(tk) ==
    IF tk.input_characters = <<>>
    THEN OkT(List(<<>>), tk)
    ELSE parse_list_loop(tk, <<>>)

parse_list(tk) == parse_list_loop(tk, <<>>)

parse_right_assoc_expr(tk) ==
    parse_right_assoc_expr_after_left(parse_left_assoc_expr(tk))

parse_right_assoc_expr_after_left(left) ==
    IF left.tag = "Err" THEN left
    ELSE parse_right_assoc_expr_after_colon(left, try_eat_token(left.tk, Punct("Colon")))

\* parse_right_assoc_expr taking a single LeftAssocExpr as the right operand
parse_right_assoc_expr_after_colon_once(left, colon) ==
    LET after_right(right) ==
            IF right.tag = "Err" THEN right
            ELSE OkT(RightAssocExpr_RightAssocExpr(
                         left.val, colon.val[1], RightAssocExpr_LeftAssocExpr(right.val)),
                     right.tk)
    IN  IF colon.tag = "Err" THEN colon
        ELSE IF colon.val # None
             THEN after_right(parse_left_assoc_expr(colon.tk))
             ELSE OkT(RightAssocExpr_LeftAssocExpr(left.val), colon.tk)

\* if let Some(colon) = self.try_eat_token(TokenKind::Colon)? { ... } else { ... }
parse_right_assoc_expr_after_colon(left, colon) ==
    LET after_right(right) ==
            IF right.tag = "Err" THEN right
            ELSE OkT(RightAssocExpr_RightAssocExpr(left.val, colon.val[1], right.val),
                     right.tk)
    IN  IF colon.tag = "Err" THEN colon
        ELSE IF colon.val # None
             THEN after_right(parse_right_assoc_expr(colon.tk))
             ELSE OkT(RightAssocExpr_LeftAssocExpr(left.val), colon.tk)

parse_left_assoc_expr(tk) ==
    parse_left_assoc_expr_after_expr(parse_operator_function_call_like(tk))

parse_left_assoc_expr_after_expr(expr) ==
    IF expr.tag = "Err" THEN expr
    ELSE try_parse_left_assoc_expr(expr.tk, LeftAssocExpr_OperatorFunctionCallLike(expr.val))

try_parse_left_assoc_expr(tk, leading) ==
    try_parse_left_assoc_expr_after_dot(leading, try_eat_token(tk, Punct("Dot")))

\* if let Some(dot) = self.try_eat_token(TokenKind::Dot)? { ... } else { Ok(leading) }
try_parse_left_assoc_expr_after_dot(leading, dot) ==
    IF dot.tag = "Err" THEN dot
    ELSE IF dot.val # None
         THEN try_parse_left_assoc_expr_after_right(
                  leading, dot, parse_operator_function_call_like(dot.tk))
         ELSE OkT(leading, dot.tk)

try_parse_left_assoc_expr_after_right(leading, dot, right) ==
    IF right.tag = "Err" THEN right
    ELSE try_parse_left_assoc_expr(
             right.tk, LeftAssocExpr_LeftAssocExpr(leading, dot.val[1], right.val))

parse_operator_function_call_like_loop(tk, tail) ==
    parse_operator_function_call_like_loop_after_peek(tail, Parser_peek_token(tk))

\* match self.peek_token()? { None => break, Some(token) => match token.kind { ... } }
parse_operator_function_call_like_loop_after_peek(tail, p) ==
    IF p.tag = "Err" THEN p
    ELSE IF \/ p.val = None
            \/ p.val[1].kind.tag \in {"Comma", "Dot", "Colon", "RightBrace", "RightBracket",
                                      "RightParenthesis"}
         THEN OkT(tail, p.tk)
         ELSE parse_operator_function_call_like_loop_after_component(
                  tail, parse_operator_function_call_like_component(p.tk))

parse_operator_function_call_like_loop_after_component(tail, component) ==
    IF component.tag = "Err" THEN component
    ELSE parse_operator_function_call_like_loop(component.tk, Append(tail, component.val))

parse_operator_function_call_like(tk) ==
    parse_operator_function_call_like_after_head(
        parse_operator_function_call_like_component(tk))

parse_operator_function_call_like_after_head(head) ==
    LET after_tail(tail) ==
            IF tail.tag = "Err" THEN tail
            ELSE OkT(OperatorFunctionCallLike(head.val, tail.val), tail.tk)
    IN  IF head.tag = "Err" THEN head
        ELSE after_tail(parse_operator_function_call_like_loop(head.tk, <<>>))

parse_alphanumeric_function_call_like_loop(tk, tail) ==
    parse_alphanumeric_function_call_like_loop_after_peek(tail, Parser_peek_token(tk))

\* while let Some(token) = self.peek_token()? { match token.kind { ... } }
parse_alphanumeric_function_call_like_loop_after_peek(tail, p) ==
    IF p.tag = "Err" THEN p
    ELSE IF /\ p.val # None
            /\ p.val[1].kind.tag \in {"Identifier", "StringLiteral", "NumberLiteral",
                                      "LeftBrace", "LeftParenthesis", "LeftBracket"}
         THEN parse_alphanumeric_function_call_like_loop_after_expr(
                  tail, parse_atomic_expr(p.tk))
         ELSE OkT(tail, p.tk)

parse_alphanumeric_function_call_like_loop_after_expr(tail, expr) ==
    IF expr.tag = "Err" THEN expr
    ELSE parse_alphanumeric_function_call_like_loop(expr.tk, Append(tail, expr.val))

parse_alphanumeric_function_call_like(tk) ==
    parse_alphanumeric_function_call_like_after_head(parse_atomic_expr(tk))

parse_alphanumeric_function_call_like_after_head(head) ==
    LET after_tail(tail) ==
            IF tail.tag = "Err" THEN tail
            ELSE IF tail.val = <<>>
                 THEN OkT(AlphanumericFunctionCallLike_AtomicExpr(head.val), tail.tk)
                 ELSE OkT(AlphanumericFunctionCallLike_FunctionCallLike(
                              FunctionCallLike(head.val, tail.val)), tail.tk)
    IN  IF head.tag = "Err" THEN head
        ELSE after_tail(parse_alphanumeric_function_call_like_loop(head.tk, <<>>))

parse_atomic_expr(tk) == parse_atomic_expr_after_token(Parser_next_token(tk))

\* if let Some(token) = self.next_token()? { ... } else { Err(UnexpectedEof) }
parse_atomic_expr_after_token(r) ==
    IF r.tag = "Err" THEN r
    ELSE IF r.val # None THEN parse_atomic_expr_match(r.val[1], r.tk)
    ELSE ErrT(UnexpectedEof(None), r.tk)

\* match &token.kind { ... }
parse_atomic_expr_match(token, tk) ==
    LET after_group(g) ==
            IF g.tag = "Err" THEN g ELSE OkT(AtomicExpr_Parenthesized(g.val), g.tk)
        close_kind ==
            CASE token.kind.tag = "LeftParenthesis" -> Punct("RightParenthesis")
              [] token.kind.tag = "LeftBrace" -> Punct("RightBrace")
              [] token.kind.tag = "LeftBracket" -> Punct("RightBracket")
    IN  CASE token.kind.tag = "Identifier" ->
                 OkT(AtomicExpr_Name(Literal(token.kind.payload, token.span)), tk)
          [] token.kind.tag = "StringLiteral" ->
                 OkT(AtomicExpr_String(Literal(token.kind.payload, token.span)), tk)
          [] token.kind.tag = "NumberLiteral" ->
                 OkT(AtomicExpr_Number(Literal(token.kind.payload, token.span)), tk)
          [] token.kind.tag \in {"LeftParenthesis", "LeftBrace", "LeftBracket"} ->
                 after_group(parse_list_ending_with(tk, token, close_kind))
          [] OTHER -> ErrT(UnexpectedToken(token, None), tk)

parse_list_ending_with(tk, open, close_kind) ==
    parse_list_ending_with_after_list(open, close_kind, parse_list(tk))

parse_list_ending_with_after_list(open, close_kind, list_) ==
    LET after_close(close) ==
            IF close.tag = "Err" THEN close
            ELSE OkT(ParenthesizedExpr(open, list_.val, close.val), close.tk)
    IN  IF list_.tag = "Err" THEN list_
        ELSE after_close(eat_token(list_.tk, close_kind))

parse_operator_function_call_like_component(tk) ==
    parse_operator_function_call_like_component_after_peek(Parser_peek_token(tk))

\* match self.peek_token()? { Some(Token { kind: Operator(..), .. }) => ..., _ => ... }
parse_operator_function_call_like_component_after_peek(p) ==
    LET after_operator(n) ==
            IF n.tag = "Err" THEN n
            ELSE OkT(Component_Operator(Operator(p.val[1].kind.payload, p.val[1].span)), n.tk)
        after_call(call) ==
            IF call.tag = "Err" THEN call
            ELSE OkT(Component_AlphanumericFunctionCallLike(call.val), call.tk)
    IN  IF p.tag = "Err" THEN p
        ELSE IF p.val # None /\ p.val[1].kind.tag = "Operator"
             THEN after_operator(Parser_next_token(p.tk))
             ELSE after_call(parse_alphanumeric_function_call_like(p.tk))

(***************************************************************************)
(* Lowering to S-expressions.                                              *)
(***************************************************************************)
Sexp_List(exprs) == [tag |-> "List", exprs |-> exprs]
Sexp_Number(number) == [tag |-> "Number", lit |-> number]
Sexp_String(string) == [tag |-> "String", lit |-> string]
Sexp_Name(name) == [tag |-> "Name", lit |-> name]

RECURSIVE Concat(_)
\* Itertools::join(""): the strings of a sequence, concatenated
Concat(strings) ==
    IF strings = <<>> THEN <<>> ELSE Head(strings) \o Concat(Tail(strings))

Operator_span(operator) == operator.span

AtomicExpr_span(expr) ==
    IF expr.node = "AtomicExpr::Parenthesized"
    THEN Span_join(expr.expr.open.span, expr.expr.close.span)
    ELSE expr.lit.span

FunctionCallLike_span(call) ==
    IF call.tail # <<>>
    THEN Span_join(AtomicExpr_span(call.head), AtomicExpr_span(call.tail[Len(call.tail)]))
    ELSE AtomicExpr_span(call.head)

AlphanumericFunctionCallLike_span(call) ==
    IF call.node = "AlphanumericFunctionCallLike::FunctionCallLike"
    THEN FunctionCallLike_span(call.call)
    ELSE AtomicExpr_span(call.expr)

Component_span(component) ==
    IF component.node = "OperatorFunctionCallLikeComponent::Operator"
    THEN Operator_span(component.operator)
    ELSE AlphanumericFunctionCallLike_span(component.call)

RECURSIVE List_to_sexp(_)
RECURSIVE RightAssocExpr_to_sexp(_)
RECURSIVE LeftAssocExpr_to_sexp(_)
RECURSIVE OperatorFunctionCallLike_to_sexp(_)
RECURSIVE AlphanumericFunctionCallLike_to_sexp(_)
RECURSIVE FunctionCallLike_to_sexp(_)
RECURSIVE AtomicExpr_to_sexp(_)

RightAssocExpr_to_sexp(self) ==
    LET append(left, right) ==
            IF left.tag = "List"
            THEN IF left.exprs # <<>>
                 THEN Sexp_List(<<Head(left.exprs)>> \o Tail(left.exprs) \o <<right>>)
                 ELSE Sexp_List(left.exprs)
            ELSE Sexp_List(<<left, right>>)
    IN  IF self.node = "RightAssocExpr::RightAssocExpr"
        THEN append(LeftAssocExpr_to_sexp(self.left), RightAssocExpr_to_sexp(self.right))
        ELSE LeftAssocExpr_to_sexp(self.expr)

\* LeftAssocExpr::to_sexp putting the left operand last
LeftAssocExpr_to_sexp_left_last(self) ==
    LET insert(right, left) ==
            IF right.tag = "List"
            THEN IF right.exprs # <<>>
                 THEN Sexp_List(<<Head(right.exprs)>> \o Tail(right.exprs) \o <<left>>)
                 ELSE left
            ELSE Sexp_List(<<right, left>>)
    IN  IF self.node = "LeftAssocExpr::LeftAssocExpr"
        THEN insert(OperatorFunctionCallLike_to_sexp(self.right),
                    LeftAssocExpr_to_sexp(self.left))
        ELSE OperatorFunctionCallLike_to_sexp(self.expr)

LeftAssocExpr_to_sexp(self) ==
    LET insert(right, left) ==
            IF right.tag = "List"
            THEN IF right.exprs # <<>>
                 THEN Sexp_List(<<Head(right.exprs)>> \o <<left>> \o Tail(right.exprs))
                 ELSE left
            ELSE Sexp_List(<<right, left>>)
    IN  IF self.node = "LeftAssocExpr::LeftAssocExpr"
        THEN insert(OperatorFunctionCallLike_to_sexp(self.right),
                    LeftAssocExpr_to_sexp(self.left))
        ELSE OperatorFunctionCallLike_to_sexp(self.expr)

\* OperatorFunctionCallLike::to_sexp without the case of a single component
OperatorFunctionCallLike_to_sexp_always_call(self) ==
    LET iter == <<self.head>> \o self.tail
        is_call(component) ==
            component.node = "OperatorFunctionCallLikeComponent::AlphanumericFunctionCallLike"
        name == Concat([i \in 1..Len(iter) |->
                    IF iter[i].node = "OperatorFunctionCallLikeComponent::Operator"
                    THEN iter[i].operator.representation
                    ELSE <<"_">>])
        calls == SelectSeq(iter, is_call)
        span == Span_join(Component_span(self.head), Component_span(iter[Len(iter)]))
    IN  Sexp_List(<<Sexp_Name(Literal(name, span))>>
                  \o [i \in 1..Len(calls) |->
                         AlphanumericFunctionCallLike_to_sexp(calls[i].call)])

\* OperatorFunctionCallLike::to_sexp naming the call by its operators alone
OperatorFunctionCallLike_to_sexp_without_placeholders(self) ==
    LET iter == <<self.head>> \o self.tail
        is_call(component) ==
            component.node = "OperatorFunctionCallLikeComponent::AlphanumericFunctionCallLike"
        name == Concat([i \in 1..Len(iter) |->
                    IF iter[i].node = "OperatorFunctionCallLikeComponent::Operator"
                    THEN iter[i].operator.representation
                    ELSE <<>>])
        calls == SelectSeq(iter, is_call)
        span == Span_join(Component_span(self.head), Component_span(iter[Len(iter)]))
    IN  IF self.tail = <<>>
        THEN IF self.head.node = "OperatorFunctionCallLikeComponent::Operator"
             THEN Sexp_Name(Literal(self.head.operator.representation,
                                    self.head.operator.span))
             ELSE AlphanumericFunctionCallLike_to_sexp(self.head.call)
        ELSE Sexp_List(<<Sexp_Name(Literal(name, span))>>
                       \o [i \in 1..Len(calls) |->
                              AlphanumericFunctionCallLike_to_sexp(calls[i].call)])

OperatorFunctionCallLike_to_sexp(self) ==
    LET iter == <<self.head>> \o self.tail
        is_call(component) ==
            component.node = "OperatorFunctionCallLikeComponent::AlphanumericFunctionCallLike"
        name == Concat([i \in 1..Len(iter) |->
                    IF iter[i].node = "OperatorFunctionCallLikeComponent::Operator"
                    THEN iter[i].operator.representation
                    ELSE <<"_">>])
        calls == SelectSeq(iter, is_call)
        span == IF self.tail # <<>>
                THEN Span_join(Component_span(self.head),
                               Component_span(self.tail[Len(self.tail)]))
                ELSE Component_span(self.head)
    IN  IF self.tail = <<>>
        THEN IF self.head.node = "OperatorFunctionCallLikeComponent::Operator"
             THEN Sexp_Name(Literal(self.head.operator.representation,
                                    self.head.operator.span))
             ELSE AlphanumericFunctionCallLike_to_sexp(self.head.call)
        ELSE Sexp_List(<<Sexp_Name(Literal(name, span))>>
                       \o [i \in 1..Len(calls) |->
                              AlphanumericFunctionCallLike_to_sexp(calls[i].call)])

AlphanumericFunctionCallLike_to_sexp(self) ==
    IF self.node = "AlphanumericFunctionCallLike::FunctionCallLike"
    THEN FunctionCallLike_to_sexp(self.call)
    ELSE AtomicExpr_to_sexp(self.expr)

\* FunctionCallLike::to_sexp passing the arguments in reverse
FunctionCallLike_to_sexp_reversed(self) ==
    LET iter == <<self.head>> \o self.tail
        is_not_name(expr) == expr.node # "AtomicExpr::Name"
        name == Concat([i \in 1..Len(iter) |->
                    IF iter[i].node = "AtomicExpr::Name"
                    THEN iter[i].lit.value
                    ELSE <<"_">>])
        others == SelectSeq(iter, is_not_name)
        span == Span_join(AtomicExpr_span(self.head), AtomicExpr_span(iter[Len(iter)]))
    IN  Sexp_List(<<Sexp_Name(Literal(name, span))>>
                  \o [i \in 1..Len(others) |->
                         AtomicExpr_to_sexp(others[Len(others) + 1 - i])])

\* FunctionCallLike::to_sexp naming the call by its head and passing every
\* other component as an argument
FunctionCallLike_to_sexp_head_named(self) ==
    LET iter == <<self.head>> \o self.tail
        name == IF self.head.node = "AtomicExpr::Name" THEN self.head.lit.value ELSE <<"_">>
        span == Span_join(AtomicExpr_span(self.head), AtomicExpr_span(iter[Len(iter)]))
    IN  Sexp_List(<<Sexp_Name(Literal(name, span))>>
                  \o [i \in 1..Len(self.tail) |-> AtomicExpr_to_sexp(self.tail[i])])

FunctionCallLike_to_sexp(self) ==
    LET iter == <<self.head>> \o self.tail
        is_not_name(expr) == expr.node # "AtomicExpr::Name"
        name == Concat([i \in 1..Len(iter) |->
                    IF iter[i].node = "AtomicExpr::Name"
                    THEN iter[i].lit.value
                    ELSE <<"_">>])
        others == SelectSeq(iter, is_not_name)
        span == IF self.tail # <<>>
                THEN Span_join(AtomicExpr_span(self.head),
                               AtomicExpr_span(self.tail[Len(self.tail)]))
                ELSE AtomicExpr_span(self.head)
    IN  Sexp_List(<<Sexp_Name(Literal(name, span))>>
                  \o [i \in 1..Len(others) |-> AtomicExpr_to_sexp(others[i])])

AtomicExpr_to_sexp(self) ==
    CASE self.node = "AtomicExpr::String" -> Sexp_String(self.lit)
      [] self.node = "AtomicExpr::Number" -> Sexp_Number(self.lit)
      [] self.node = "AtomicExpr::Parenthesized" -> List_to_sexp(self.expr.list)
      [] self.node = "AtomicExpr::Name" -> Sexp_Name(self.lit)

List_to_sexp(self) ==
    Sexp_List([i \in 1..Len(self.exprs) |-> RightAssocExpr_to_sexp(self.exprs[i])])

(***************************************************************************)
(* Sexp::stringify.  {} of an f64 prints its shortest decimal form, and    *)
(* {:#?} of a String quotes and escapes it.                                *)
(***************************************************************************)
escape_debug(character) ==
    CASE character = "\"" -> <<"\\", "\"">>
      [] character = "\\" -> <<"\\", "\\">>
      [] character = "\n" -> <<"\\", "n">>
      [] character = "\t" -> <<"\\", "t">>
      [] character = "\r" -> <<"\\", "r">>
      [] OTHER -> <<character>>

fmt_debug(string) ==
    <<"\"">> \o Concat([i \in 1..Len(string) |-> escape_debug(string[i])]) \o <<"\"">>

RECURSIVE decimal_digits(_)
\* the digits of a natural number, at least one
decimal_digits(n) ==
    IF n < 10 THEN <<DigitChars[n + 1]>>
    ELSE Append(decimal_digits(n \div 10), DigitChars[(n % 10) + 1])

RECURSIVE pad_zeros(_, _)
pad_zeros(digits, width) ==
    IF Len(digits) >= width THEN digits ELSE pad_zeros(<<"0">> \o digits, width)

fmt_display_f64(value) ==
    LET digits == pad_zeros(decimal_digits(value.mantissa), value.scale + 1)
        int_len == Len(digits) - value.scale
    IN  IF value.scale = 0 THEN digits
        ELSE SubSeq(digits, 1, int_len) \o <<".">> \o SubSeq(digits, int_len + 1, Len(digits))

RECURSIVE join(_, _)
\* Itertools::join(sep)
join(strings, sep) ==
    IF strings = <<>> THEN <<>>
    ELSE IF Len(strings) = 1 THEN strings[1]
    ELSE Head(strings) \o sep \o join(Tail(strings), sep)

RECURSIVE stringify(_)
stringify(self) ==
    CASE self.tag = "List" ->
           <<"(">> \o join([i \in 1..Len(self.exprs) |-> stringify(self.exprs[i])], <<" ">>)
                   \o <<")">>
      [] self.tag = "Number" -> fmt_display_f64(self.lit.value)
      [] self.tag = "String" -> fmt_debug(self.lit.value)
      [] self.tag = "Name" -> self.lit.value

(***************************************************************************)
(* The parser as the tests drive it: Parser::new(input), parse_list()?,    *)
(* to_sexp(), stringify().                                                 *)
(***************************************************************************)
\* test_parse::operator_1: n *: n - 1 .factorial
Operator1Input ==
    <<"n", " ", "*", ":", " ", "n", " ", "-", " ", "1", " ", ".", "f", "a", "c", "t",
      "o", "r", "i", "a", "l">>

\* test_parse::case_1: x <= y < z
Case1Input ==
    <<"x", " ", "<", "=", " ", "y", " ", "<", " ", "z">>

\* test_parse::case_2: def (n .factorial): if (n < 2) then 1 else: n *: n - 1 .factorial
Case2Input ==
    <<"d", "e", "f", " ", "(", "n", " ", ".", "f", "a", "c", "t", "o", "r", "i", "a",
      "l", ")", ":", " ", "i", "f", " ", "(", "n", " ", "<", " ", "2", ")", " ", "t",
      "h", "e", "n", " ", "1", " ", "e", "l", "s", "e", ":", " ", "n", " ", "*", ":",
      " ", "n", " ", "-", " ", "1", " ", ".", "f", "a", "c", "t", "o", "r", "i", "a",
      "l">>

ParseAlphabet == {"a", "1", "+", "(", ")", "]", ".", ":", ",", " "}

\* further inputs: calls, chains, lists, literals and every bracket shape
\* f x y
CallInput == <<"f", " ", "x", " ", "y">>
\* x.f y
DotCallInput == <<"x", ".", "f", " ", "y">>
\* f x . g y
DotChainCallInput == <<"f", " ", "x", " ", ".", " ", "g", " ", "y">>
\* f "s\n" 1.50 (x)
MixedCallInput == <<"f", " ", "\"", "s", "\\", "n", "\"", " ", "1", ".", "5", "0", " ", "(", "x", ")">>
\* x + 1 . g 2 : h
MixedChainInput == <<"x", " ", "+", " ", "1", " ", ".", " ", "g", " ", "2", " ", ":", " ", "h">>
\* ()
EmptyParenthesesInput == <<"(", ")">>
\* {}
EmptyBracesInput == <<"{", "}">>
\* []
EmptyBracketsInput == <<"[", "]">>

\* a call whose head is on the first line and whose argument is on the second
TwoLineCallInput == <<"a", "a", "\n", "1">>
\* the same, the head indented
IndentedTwoLineCallInput == <<" ", "a", "\n", "1">>

ScenarioInputs ==
    {Operator1Input, Case1Input, Case2Input, TwoLineCallInput, IndentedTwoLineCallInput,
     CallInput, DotCallInput, DotChainCallInput, MixedCallInput,
     MixedChainInput, EmptyParenthesesInput, EmptyBracesInput, EmptyBracketsInput,
     <<"i", "d", "e", "n", "t", "i", "f", "i", "e", "r", "1", "2", "3", " ", "\"", "s",
       "t", "r", "i", "n", "g", " ", "l", "i", "t", "e", "r", "a", "l", "\"", " ", "1",
       "2", "3", ".", "4", "5", "6">>,
     <<"a", ",", " ", "b", ",", " ", "c">>,
     <<"(", "a", ",", " ", "b", ")", " ", ",", " ", "c">>,
     <<"\n">>,
     <<"{", "a", "}">>,
     <<"[", "a", "]">>,
     <<"{", "a">>,
     <<"[", "a">>,
     <<"{", "a", ")">>,
     <<"[", "a", "}">>,
     <<"{", "a", "]">>,
     <<"[", "a", ")">>,
     <<"(", "a", "}">>,
     <<"{">>,
     <<"[">>,
     <<"{", "]">>,
     <<"[", ")">>,
     <<"{", "a", ",">>,
     <<"[", "a", " ", ".">>,
     <<"\"", "a", "\\", "\"", "b", "\"", " ", "0", "0", "7">>,
     <<"a", " ", ")", " ", "b">>,
     <<"(", "[", "a", ")">>,
     <<"{", "(", "a", "}">>}

\* operands of the chains a . b . c and a : b : c
Fragments == {<<"a">>, <<"1">>, <<"+">>, <<"f", " ", "1">>, <<"a", " ", "+", " ", "b">>,
              <<"(", "b", ")">>}

Sep(character) == <<" ", character, " ">>
Chain(a, op, b, c) == a \o Sep(op) \o b \o Sep(op) \o c
LeftGrouped(a, op, b, c) == <<"(">> \o a \o Sep(op) \o b \o <<")">> \o Sep(op) \o c
RightGrouped(a, op, b, c) == a \o Sep(op) \o <<"(">> \o b \o Sep(op) \o c \o <<")">>

ChainInputs ==
    UNION {{Chain(a, ".", b, c), LeftGrouped(a, ".", b, c),
            Chain(a, ":", b, c), RightGrouped(a, ":", b, c),
            a, a \o Sep(".") \o b, a \o Sep(":") \o b} :
           a \in Fragments, b \in Fragments, c \in Fragments}

ParseSources == SeqsUpTo(ParseAlphabet, MaxParseLen) \cup ScenarioInputs \cup ChainInputs

ParseInit ==
    /\ input_text \in ParseSources
    /\ tokenizer = Parser_new(input_text)
    /\ called = "new"
    /\ returned = Ok(None)
    /\ ParserIdle

ParseList ==
    /\ pc = "new"
    /\ LET r == parse_list(tokenizer) IN
       /\ tokenizer' = r.tk
       /\ list' = Some(Returned(r))
    /\ pc' = "parsed"
    /\ UNCHANGED <<input_text, called, returned, sexp, text>>

ToSexp ==
    /\ pc = "parsed"
    /\ list[1].tag = "Ok"
    /\ sexp' = Some(List_to_sexp(list[1].val))
    /\ pc' = "lowered"
    /\ UNCHANGED <<input_text, tokenizer, called, returned, list, text>>

Stringify ==
    /\ pc = "lowered"
    /\ text' = Some(stringify(sexp[1]))
    /\ pc' = "printed"
    /\ UNCHANGED <<input_text, tokenizer, called, returned, list, sexp>>

ParseNext == ParseList \/ ToSexp \/ Stringify

ParseSpec == ParseInit /\ [][ParseNext]_vars

(***************************************************************************)
(* C2: if parse_list succeeds on a freshly constructed Parser, the whole   *)
(* source has been consumed: no token is left in the look-ahead slot and   *)
(* nothing but whitespace is left in the input.                            *)
(***************************************************************************)
C2_SuccessConsumesSource ==
    (pc # "new" /\ list[1].tag = "Ok") =>
        /\ tokenizer.cached_next_token = None
        /\ skip_whitespace(tokenizer).input_characters = <<>>

(***************************************************************************)
(* C3: a list with zero elements is accepted: the empty source and a       *)
(* source of only whitespace parse to an empty top-level list, and the     *)
(* groups (), {} and [] parse to an atomic expression that lowers to the   *)
(* empty list.                                                             *)
(***************************************************************************)
C3_EmptyListAccepted ==
    pc # "new" =>
        /\ (\A i \in 1..Len(input_text) : is_whitespace(input_text[i])) =>
               (list[1].tag = "Ok" /\ list[1].val.exprs = <<>>)
        /\ input_text \in {EmptyParenthesesInput, EmptyBracesInput, EmptyBracketsInput} =>
               /\ list[1].tag = "Ok"
               /\ Len(list[1].val.exprs) = 1
               /\ RightAssocExpr_to_sexp(list[1].val.exprs[1]) = Sexp_List(<<>>)

(***************************************************************************)
(* The brackets of a source, read off its tokens.                          *)
(***************************************************************************)
RECURSIVE TokenTags(_)
\* the kinds of the tokens next_token yields, closed by "Eof" or "LexError"
TokenTags(tk) ==
    LET r == next_token(tk) IN
    IF r.tag = "Err" THEN <<"LexError">>
    ELSE IF r.val = None THEN <<"Eof">>
    ELSE <<r.val[1].kind.tag>> \o TokenTags(r.tk)

Openers == {"LeftParenthesis", "LeftBrace", "LeftBracket"}
Closers == {"RightParenthesis", "RightBrace", "RightBracket"}
Separators == {"Comma", "Dot", "Colon"}
Closer(opener) ==
    CASE opener = "LeftParenthesis" -> "RightParenthesis"
      [] opener = "LeftBrace" -> "RightBrace"
      [] opener = "LeftBracket" -> "RightBracket"

RECURSIVE BracketFault(_, _)
\* The first place where a group is left unclosed: <<error, closer>> when the
\* input ends inside a group or a closing bracket other than the group's own is
\* met, None when every group is closed (or a closing bracket closes nothing).
\* open holds the closers of the groups that are open, innermost first.
BracketFault(tags, open) ==
    LET tag == Head(tags) IN
    CASE tag = "Eof" ->
           IF open = <<>> THEN None ELSE Some(<<"UnexpectedEof", Head(open)>>)
      [] tag = "LexError" -> None
      [] tag \in Openers -> BracketFault(Tail(tags), <<Closer(tag)>> \o open)
      [] tag \in Closers ->
           IF open = <<>> THEN None
           ELSE IF tag = Head(open) THEN BracketFault(Tail(tags), Tail(open))
           ELSE Some(<<"UnexpectedToken", Head(open)>>)
      [] OTHER -> BracketFault(Tail(tags), open)

RECURSIVE Outcome(_, _, _)
\* What parsing must end with, token by token: <<"Ok">>, <<"TokenizeError">>,
\* or <<error, expected>>.  wanted says that an expression has to start here
\* (at the start, after an opening bracket, after "," "." ":").
Outcome(tags, open, wanted) ==
    LET tag == Head(tags) IN
    CASE tag = "LexError" -> <<"TokenizeError">>
      [] tag = "Eof" ->
           IF wanted THEN <<"UnexpectedEof", None>>
           ELSE IF open = <<>> THEN <<"Ok">>
           ELSE <<"UnexpectedEof", Some(Punct(Head(open)))>>
      [] tag \in Openers -> Outcome(Tail(tags), <<Closer(tag)>> \o open, TRUE)
      [] tag \in Separators ->
           IF wanted THEN <<"UnexpectedToken", None>> ELSE Outcome(Tail(tags), open, TRUE)
      [] tag \in Closers ->
           IF wanted THEN <<"UnexpectedToken", None>>
           ELSE IF open = <<>> THEN <<"Ok">>
           ELSE IF tag = Head(open) THEN Outcome(Tail(tags), Tail(open), FALSE)
           ELSE <<"UnexpectedToken", Some(Punct(Head(open)))>>
      [] OTHER -> Outcome(Tail(tags), open, FALSE)

\* how parse_list ended
Ended(result) ==
    IF result.tag = "Ok" THEN <<"Ok">>
    ELSE IF result.val.tag = "TokenizeError" THEN <<"TokenizeError">>
    ELSE <<result.val.tag, result.val.expected>>

(***************************************************************************)
(* C4 as claimed: whenever a source holds a group that is not closed by    *)
(* its matching bracket, the parse fails with the matching closing kind    *)
(* recorded as expected: UnexpectedEof when the input ends inside the      *)
(* group, UnexpectedToken when another closing bracket is met.             *)
(***************************************************************************)
C4_UnclosedGroupExpectsCloser ==
    pc # "new" =>
        LET fault == BracketFault(TokenTags(Tokenizer_new(input_text)), <<>>) IN
        fault # None =>
            /\ list[1].tag = "Err"
            /\ list[1].val.tag = fault[1][1]
            /\ list[1].val.expected = Some(Punct(fault[1][2]))

(***************************************************************************)
(* C4 as amended: the closing kind is recorded only when the group's list  *)
(* has been parsed.  When the input ends, or a closing bracket other than  *)
(* the matching one is met, directly after a complete expression of the    *)
(* innermost open group, the parse fails with UnexpectedEof, respectively  *)
(* UnexpectedToken, with expected: Some(matching closer).  When the input  *)
(* ends or a closing bracket, ",", "." or ":" stands where an expression   *)
(* has to start (at the start, after an opening bracket, "," "." or ":"),  *)
(* the error carries expected: None.  A lex error met first is returned as *)
(* TokenizeError, and a closing bracket met outside every group ends the   *)
(* parse with success.                                                     *)
(***************************************************************************)
C4_ExpectedCloserAfterList ==
    pc # "new" =>
        Ended(list[1]) = Outcome(TokenTags(Tokenizer_new(input_text)), <<>>, TRUE)

C4_Witness ==
    /\ pc = "parsed"
    /\ list[1].tag = "Err"
    /\ list[1].val.tag = "UnexpectedToken"
    /\ list[1].val.expected = Some(Punct("RightBrace"))

(***************************************************************************)
(* C5 as claimed: a juxtaposition with an identifier head f lowers to      *)
(* a list whose head is the name f and whose other elements are the        *)
(* arguments in source order, identifiers included: "f x y" and "x.f y"    *)
(* lower to (f x y), and "f x . g y" prints as ((g (f x) y)).              *)
(***************************************************************************)
\* the element of the top-level list when it is a bare FunctionCallLike, else None
TopCall(expr) ==
    IF /\ expr.node = "RightAssocExpr::LeftAssocExpr"
       /\ expr.expr.node = "LeftAssocExpr::OperatorFunctionCallLike"
       /\ expr.expr.expr.tail = <<>>
       /\ expr.expr.expr.head.node
              = "OperatorFunctionCallLikeComponent::AlphanumericFunctionCallLike"
       /\ expr.expr.expr.head.call.node = "AlphanumericFunctionCallLike::FunctionCallLike"
    THEN Some(expr.expr.expr.head.call.call)
    ELSE None

OtherArguments(call) == {k \in 1..Len(call.tail) : call.tail[k].node # "AtomicExpr::Name"}

RECURSIVE Shape(_)
Shape(expr) ==
    IF expr.tag = "List"
    THEN <<"List", [i \in 1..Len(expr.exprs) |-> Shape(expr.exprs[i])]>>
    ELSE <<expr.tag, stringify(expr)>>

\* the lowering of a source that parses
Lowered(source) == Shape(List_to_sexp(parse_list(Parser_new(source)).val))
\* the lowering of a source that parses to one expression
LoweredExpr(source) == Lowered(source)[2][1]

\* the rule of L . R on shapes
DotRule(l, r) ==
    IF r[1] = "List"
    THEN IF r[2] # <<>> THEN <<"List", <<Head(r[2])>> \o <<l>> \o Tail(r[2])>> ELSE l
    ELSE <<"List", <<r, l>>>>
\* the rule of L : R on shapes
ColonRule(l, r) ==
    IF l[1] = "List"
    THEN IF l[2] # <<>> THEN <<"List", Append(l[2], r)>> ELSE l
    ELSE <<"List", <<l, r>>>>
Group(l) == <<"List", <<l>>>>

C8_ChainSplicesOperand ==
    pc \in {"lowered", "printed"} =>
        \A i \in 1..Len(list[1].val.exprs) :
            LET expr == list[1].val.exprs[i]
                result == sexp[1].exprs[i]
                dot == /\ expr.node = "RightAssocExpr::LeftAssocExpr"
                       /\ expr.expr.node = "LeftAssocExpr::LeftAssocExpr"
                colon == expr.node = "RightAssocExpr::RightAssocExpr"
            IN  /\ dot =>
                       LET l == LeftAssocExpr_to_sexp(expr.expr.left)
                           r == OperatorFunctionCallLike_to_sexp(expr.expr.right)
                       IN  /\ (r.tag = "List" /\ r.exprs # <<>>) =>
                                  /\ result.tag = "List"
                                  /\ Len(result.exprs) = Len(r.exprs) + 1
                                  /\ result.exprs[1] = r.exprs[1]
                                  /\ result.exprs[2] = l
                                  /\ \A k \in 2..Len(r.exprs) : result.exprs[k + 1] = r.exprs[k]
                           /\ r.tag # "List" =>
                                  /\ result.tag = "List"
                                  /\ Len(result.exprs) = 2
                                  /\ result.exprs[1] = r
                                  /\ result.exprs[2] = l
                /\ colon =>
                       LET l == LeftAssocExpr_to_sexp(expr.left)
                           r == RightAssocExpr_to_sexp(expr.right)
                       IN  /\ (l.tag = "List" /\ l.exprs # <<>>) =>
                                  /\ result.tag = "List"
                                  /\ Len(result.exprs) = Len(l.exprs) + 1
                                  /\ \A k \in 1..Len(l.exprs) : result.exprs[k] = l.exprs[k]
                                  /\ result.exprs[Len(l.exprs) + 1] = r
                           /\ l.tag # "List" =>
                                  /\ result.tag = "List"
                                  /\ Len(result.exprs) = 2
                                  /\ result.exprs[1] = l
                                  /\ result.exprs[2] = r

C8_Witness ==
    /\ pc = "lowered"
    /\ input_text = MixedChainInput
    /\ list[1].val.exprs[1].node = "RightAssocExpr::RightAssocExpr"
    /\ list[1].val.exprs[1].left.node = "LeftAssocExpr::LeftAssocExpr"
    /\ Len(sexp[1].exprs[1].exprs) = 4

(***************************************************************************)
(* C9: an AlphanumericCall with a head and at least one argument lowers to *)
(* a list.  Its first element is a name synthesised from head and          *)
(* arguments in order: the text of each component that is a bare name, one *)
(* "_" for every other component.  Its other elements are the components   *)
(* that are no names (strings, numbers, parenthesised lists), lowered, in  *)
(* their order; a bare name is never a list element.                       *)
(***************************************************************************)
RECURSIVE SynthesisedName(_)
SynthesisedName(components) ==
    IF components = <<>> THEN <<>>
    ELSE (IF Head(components).node = "AtomicExpr::Name"
          THEN Head(components).lit.value ELSE <<"_">>)
         \o SynthesisedName(Tail(components))

RECURSIVE LoweredOthers(_)
LoweredOthers(components) ==
    IF components = <<>> THEN <<>>
    ELSE (IF Head(components).node = "AtomicExpr::Name"
          THEN <<>> ELSE <<AtomicExpr_to_sexp(Head(components))>>)
         \o LoweredOthers(Tail(components))

TopMixfix(expr) ==
    IF /\ expr.node = "RightAssocExpr::LeftAssocExpr"
       /\ expr.expr.node = "LeftAssocExpr::OperatorFunctionCallLike"
    THEN Some(expr.expr.expr)
    ELSE None

RECURSIVE MixfixName(_)
MixfixName(components) ==
    IF components = <<>> THEN <<>>
    ELSE (IF Head(components).node = "OperatorFunctionCallLikeComponent::Operator"
          THEN Head(components).operator.representation ELSE <<"_">>)
         \o MixfixName(Tail(components))

RECURSIVE LoweredCalls(_)
LoweredCalls(components) ==
    IF components = <<>> THEN <<>>
    ELSE (IF Head(components).node = "OperatorFunctionCallLikeComponent::Operator"
          THEN <<>> ELSE <<AlphanumericFunctionCallLike_to_sexp(Head(components).call)>>)
         \o LoweredCalls(Tail(components))

RECURSIVE collect_tokens_loop(_, _)
collect_tokens_loop(tk, tokens) ==
    LET r == next_token(tk) IN
    IF r.tag = "Err" THEN Err(r.val)
    ELSE IF r.val = None THEN Ok(tokens)
    ELSE collect_tokens_loop(r.tk, Append(tokens, r.val[1]))

collect_tokens(tk) == collect_tokens_loop(tk, <<>>)

\* the code points of the source a span covers
Lexeme(source, span) ==
    SubSeq(source, span.start.character_index + 1, span.end.character_index)

\* the token kind the first code point of a lexeme selects
KindByFirst(first) ==
    CASE first \in Punctuation -> PunctuationKind(first)
      [] first = "\"" -> "StringLiteral"
      [] first \in Digit -> "NumberLiteral"
      [] first \notin Punctuation \cup {"\""} \cup Digit
         /\ (is_alphanumeric(first) \/ first = "_") -> "Identifier"
      [] OTHER -> "Operator"

\* the kind and the text of a token agree with the first code point of its lexeme
TokenAsFirstSelects(source, token) ==
    LET lexeme == Lexeme(source, token.span) IN
    /\ lexeme # <<>>
    /\ ~is_whitespace(lexeme[1])
    /\ token.kind.tag = KindByFirst(lexeme[1])
    /\ lexeme[1] \in Punctuation => Len(lexeme) = 1
    /\ token.kind.tag = "Identifier" =>
          /\ token.kind.payload = lexeme
          /\ \A i \in 1..Len(lexeme) :
                is_alphanumeric(lexeme[i]) \/ lexeme[i] = "_"
    /\ token.kind.tag = "Operator" =>
          /\ token.kind.payload = lexeme
          /\ \A i \in 1..Len(lexeme) :
                ~is_whitespace(lexeme[i]) /\ lexeme[i] \notin Punctuation

\* the tokens are the lexemes of the source in source order: the spans follow
\* one another and every code point outside them is whitespace
OnePerLexemeInOrder(source, tokens) ==
    /\ \A i \in 1..Len(tokens) - 1 :
          tokens[i].span.end.character_index
             <= tokens[i + 1].span.start.character_index
    /\ \A k \in 1..Len(source) :
          \/ is_whitespace(source[k])
          \/ \E i \in 1..Len(tokens) :
                /\ tokens[i].span.start.character_index < k
                /\ k <= tokens[i].span.end.character_index

PositionAt(source, index) ==
    LET line_feeds == {k \in 1..index : source[k] = "\n"}
        line_start == IF line_feeds = {} THEN 0
                      ELSE CHOOSE k \in line_feeds : \A j \in line_feeds : j <= k
    IN  Position(1 + Cardinality(line_feeds), index - line_start + 1, index)

\* a call has returned a token
ReturnedToken == returned.tag = "Ok" /\ returned.val # None

\* the span of a token runs from the position before its first code point,
\* which is no whitespace, to the position after its last, where the lexer stands
SpanOfLexeme(source, span, tk) ==
    /\ 0 <= span.start.character_index
    /\ span.start.character_index < span.end.character_index
    /\ span.end.character_index <= Len(source)
    /\ span.start = PositionAt(source, span.start.character_index)
    /\ span.end = PositionAt(source, span.end.character_index)
    /\ ~is_whitespace(source[span.start.character_index + 1])
    /\ span.end = tk.current_position
    /\ tk.input_characters =
          SubSeq(source, span.end.character_index + 1, Len(source))

(***************************************************************************)
(* C12: every token the lexer returns (from next_token or peek_token) has  *)
(* a non-empty span inside the source: start.character_index <             *)
(* end.character_index <= the number of code points, start is the position *)
(* before the first code point of the token and end the position after its *)
(* last; and a token returned after next_token has returned a token starts *)
(* at or after the end of that earlier token.                              *)
(***************************************************************************)
C12_SpansNonEmptyInOrder ==
    /\ [](ReturnedToken =>
             SpanOfLexeme(input_text, returned.val[1].span, tokenizer))
    /\ [][(called = "next_token" /\ ReturnedToken
             /\ returned'.tag = "Ok" /\ returned'.val # None)
          => /\ returned.val[1].span.end.character_index
                   <= returned'.val[1].span.start.character_index
             /\ returned.val[1].span.end.line_number
                   <= returned'.val[1].span.start.line_number]_vars

\* next_token has returned the second token of a source, from its second line
C12_Witness ==
    /\ input_text = <<"n", "\n", "+">>
    /\ called = "next_token"
    /\ ReturnedToken
    /\ returned.val[1].kind.tag = "Operator"
    /\ returned.val[1].span = Span(Position(2, 1, 2), Position(2, 2, 3))
    /\ tokenizer.cached_next_token = None

(***************************************************************************)
(* The concrete tree as nodes and children.                                *)
(***************************************************************************)
\* the children of a node of the concrete tree, in source order
Children(n) ==
    CASE n.node = "List" -> n.exprs
      [] n.node = "RightAssocExpr::RightAssocExpr" -> <<n.left, n.right>>
      [] n.node = "RightAssocExpr::LeftAssocExpr" -> <<n.expr>>
      [] n.node = "LeftAssocExpr::LeftAssocExpr" -> <<n.left, n.right>>
      [] n.node = "LeftAssocExpr::OperatorFunctionCallLike" -> <<n.expr>>
      [] n.node = "OperatorFunctionCallLike" -> <<n.head>> \o n.tail
      [] n.node = "OperatorFunctionCallLikeComponent::Operator" -> <<>>
      [] n.node = "OperatorFunctionCallLikeComponent::AlphanumericFunctionCallLike" ->
           <<n.call>>
      [] n.node = "AlphanumericFunctionCallLike::FunctionCallLike" -> <<n.call>>
      [] n.node = "AlphanumericFunctionCallLike::AtomicExpr" -> <<n.expr>>
      [] n.node = "FunctionCallLike" -> <<n.head>> \o n.tail
      [] n.node = "AtomicExpr::Parenthesized" -> <<n.expr.list>>
      [] n.node \in {"AtomicExpr::String", "AtomicExpr::Number", "AtomicExpr::Name"} ->
           <<>>

\* the nodes that are no leaves: lists, chains, mixfix and alphanumeric calls
NonAtomic(n) ==
    n.node \in {"List", "RightAssocExpr::RightAssocExpr",
                "LeftAssocExpr::LeftAssocExpr", "OperatorFunctionCallLike",
                "FunctionCallLike"}

RECURSIVE EveryNodeHasChild(_)
EveryNodeHasChild(n) ==
    /\ NonAtomic(n) => Len(Children(n)) >= 1
    /\ \A i \in 1..Len(Children(n)) : EveryNodeHasChild(Children(n)[i])

RECURSIVE HasEmptyGroup(_)
\* the tree holds a bracketed group of no expressions
HasEmptyGroup(n) ==
    \/ n.node = "AtomicExpr::Parenthesized" /\ n.expr.list.exprs = <<>>
    \/ \E i \in 1..Len(Children(n)) : HasEmptyGroup(Children(n)[i])

RECURSIVE HasEmptyList(_)
\* the S-expression holds a list of no elements
HasEmptyList(expr) ==
    /\ expr.tag = "List"
    /\ \/ expr.exprs = <<>>
       \/ \E i \in 1..Len(expr.exprs) : HasEmptyList(expr.exprs[i])

(***************************************************************************)
(* C13: in the S-expression lowered from a source that parses, a list is   *)
(* empty only if the concrete tree holds an empty bracketed group; and     *)
(* every non-atomic node of the concrete tree (list, colon or dot chain,   *)
(* mixfix call, alphanumeric call) has at least one child.                 *)
(***************************************************************************)
C13_NoEmptyListNoChildlessNode ==
    /\ (pc \in {"parsed", "lowered", "printed"} /\ list[1].tag = "Ok")
          => EveryNodeHasChild(list[1].val)
    /\ pc \in {"lowered", "printed"}
          => (HasEmptyList(sexp[1]) => HasEmptyGroup(list[1].val))

\* a source with a bracketed group inside a call has been lowered
C13_Witness ==
    /\ pc = "lowered"
    /\ input_text = <<"a", "(", "1", ")">>
    /\ ~HasEmptyGroup(list[1].val)
    /\ ~HasEmptyList(sexp[1])
    /\ Len(sexp[1].exprs) = 1
    /\ sexp[1].exprs[1].tag = "List"
    /\ Len(sexp[1].exprs[1].exprs) = 2
    /\ sexp[1].exprs[1].exprs[2].tag = "List"

\* a position the lexer's tracking yields at some index of the source
GenuinePosition(source, position) ==
    /\ position.character_index \in 0..Len(source)
    /\ position = PositionAt(source, position.character_index)

\* join covers both spans: from the earlier start to the later end
CoveringSpan(a, b) ==
    Span(IF a.start.character_index <= b.start.character_index
         THEN a.start ELSE b.start,
         IF a.end.character_index >= b.end.character_index
         THEN a.end ELSE b.end)

(***************************************************************************)
(* C14: Span::join is safe on the spans of one source.  For any two tokens *)
(* of a source that lexes, on the same line or on different lines, the     *)
(* start and the end of the join of their spans are positions the lexer's  *)
(* tracking yields at their character index: the start is the start with   *)
(* the smaller character index, the end the end with the larger one.       *)
(***************************************************************************)
C14_JoinYieldsGenuinePositions ==
    LET collected == collect_tokens(Tokenizer_new(input_text)) IN
    collected.tag = "Ok" =>
       \A i, j \in 1..Len(collected.val) :
          LET joined == Span_join(collected.val[i].span, collected.val[j].span) IN
          /\ GenuinePosition(input_text, joined.start)
          /\ GenuinePosition(input_text, joined.end)
          /\ joined = CoveringSpan(collected.val[i].span, collected.val[j].span)

(***************************************************************************)
(* Progress of the lexer and of the parser's loops.                        *)
(***************************************************************************)
\* the number of next_token calls a tokenizer still answers with a token
TokensLeft(tk) == Len(TokenTags(tk)) - 1

RECURSIVE TokenizerStates(_)
\* the states the parser can bring its tokenizer to: the parser touches it
\* through next_token and peek_token only, and stops at the first error
TokenizerStates(tk) ==
    LET peeked == peek_token(tk)
        taken == next_token(tk)
    IN  {tk}
        \cup (IF peeked.tag = "Ok" THEN {peeked.tk} ELSE {})
        \cup (IF taken.tag = "Ok" /\ taken.val # None
              THEN TokenizerStates(taken.tk) ELSE {})

\* the tokenizer states examined for a source
ProgressStates(source) ==
    IF Len(source) <= MaxProgressLen \/ source \in ScenarioInputs
    THEN TokenizerStates(Parser_new(source))
    ELSE {}

\* a parsing method that returns Ok has consumed at least one token
Consumes(tk, r) == r.tag = "Ok" => TokensLeft(r.tk) < TokensLeft(tk)

\* try_eat_token consumes one token when it returns a token, none otherwise
EatsOneOrNone(tk, r) ==
    r.tag = "Ok" =>
       TokensLeft(r.tk) = TokensLeft(tk) - (IF r.val # None THEN 1 ELSE 0)

\* a token read from the source takes at least one code point
ReadsCodePoint(tk, r) ==
    (r.tag = "Ok" /\ r.val # None)
       => Len(r.tk.input_characters) < Len(tk.input_characters)

\* Ok of a tree, or Err of one ParseError
TreeOrSingleError(r) ==
    \/ r.tag = "Ok" /\ r.val.node = "List"
    \/ /\ r.tag = "Err"
       /\ r.val.tag \in {"TokenizeError", "UnexpectedToken", "UnexpectedEof"}

(***************************************************************************)
(* C15: parse_list terminates on every source with a concrete tree or one  *)
(* error.  From every state the parser can bring its tokenizer to, each    *)
(* loop makes progress or ends: an iteration of the comma loop (one        *)
(* parse_right_assoc_expr), of the component loop (one                     *)
(* parse_operator_function_call_like_component) and of the argument loop   *)
(* (one parse_atomic_expr) consumes at least one token when it returns no  *)
(* error; the dot and the colon recursion go on only after try_eat_token   *)
(* has consumed a Dot or a Colon; the same holds for the comma that        *)
(* continues the comma loop; and every token the lexer reads takes at      *)
(* least one code point.                                                   *)
(***************************************************************************)
C15_ParserLoopsConsume ==
    pc = "parsed" =>
       /\ TreeOrSingleError(list[1])
       /\ list[1].tag = "Ok"
             => TokensLeft(tokenizer) < TokensLeft(Parser_new(input_text))
       /\ \A tk \in ProgressStates(input_text) :
             /\ Consumes(tk, parse_right_assoc_expr(tk))
             /\ Consumes(tk, parse_operator_function_call_like_component(tk))
             /\ Consumes(tk, parse_atomic_expr(tk))
             /\ \A kind \in {"Comma", "Dot", "Colon"} :
                   EatsOneOrNone(tk, try_eat_token(tk, Punct(kind)))
             /\ ReadsCodePoint(tk, read_next_token(tk))

\* parse_list has returned a tree after running the comma loop, the colon
\* recursion, the dot recursion, the component loop and the argument loop
C15_Witness ==
    /\ pc = "parsed"
    /\ input_text = Case2Input
    /\ list[1].tag = "Ok"
    /\ tokenizer.input_characters = <<>>
    /\ TokensLeft(Parser_new(input_text)) > 20
    /\ TokensLeft(tokenizer) = 0

\* the lex errors that are raised inside a string or a number literal
LiteralErrors ==
    {"InvalidEscapeSequence", "UnterminatedStringLiteral",
     "InvalidNumberFormatMultipleDecimalPoints", "FailedToParseNumber"}

\* the characters skip_whitespace leaves do not start with whitespace
StartsWithoutWhitespace(tk) ==
    \/ tk.input_characters = <<>>
    \/ ~is_whitespace(Head(tk.input_characters))

(***************************************************************************)
(* C16: the lexer never returns UnexpectedCharacter.  After whitespace is  *)
(* skipped the first code point left, if any, is no whitespace, so one of  *)
(* the punctuation, string, number, identifier and operator branches takes *)
(* it; the error of a next_token or peek_token call is one of              *)
(* InvalidEscapeSequence, UnterminatedStringLiteral,                       *)
(* InvalidNumberFormatMultipleDecimalPoints and FailedToParseNumber.       *)
(***************************************************************************)
C16_NoUnexpectedCharacter ==
    /\ StartsWithoutWhitespace(skip_whitespace(tokenizer))
    /\ returned.tag = "Err" =>
          /\ returned.val.tag # "UnexpectedCharacter"
          /\ returned.val.tag \in LiteralErrors
    /\ read_next_token(tokenizer).tag = "Err" =>
          read_next_token(tokenizer).val.tag \in LiteralErrors

\* next_token has skipped whitespace, met a string literal and returned its error
C16_Witness ==
    /\ input_text = <<" ", "\"", "\n">>
    /\ called = "next_token"
    /\ returned.tag = "Err"
    /\ returned.val.tag = "UnterminatedStringLiteral"
    /\ tokenizer.input_characters = <<>>

====
